---------------------------- MODULE Spec2Model ----------------------------
(***************************************************************************)
(* Model of wikiquote-to-git: the label graph (category_graph.rs, Graph),  *)
(* the category extractor's calls into it, the explicit-stack post-order   *)
(* walk (Graph::walk_dfs_post_order) and the "cats" run of main.rs         *)
(* (process_categories, add_articles_to_git, store_categories_in_git).    *)
(*                                                                         *)
(* Strings are sequences of one-character strings, so that trimming, byte  *)
(* length and character replacement are computed, not assumed.  Node       *)
(* indices are 0-based as in the source; node_data[i + 1] is node i.       *)
(***************************************************************************)
EXTENDS Integers, Sequences, FiniteSets, TLC

(***************************************************************************)
(* Bounds of the model.                                                    *)
(***************************************************************************)
\* category-membership constructs in the dump (calls of Graph::add)
MaxAdds == 3
\* citations found by the citation pass over the dump
MaxCites == 1
\* lines printed by the pass of the list, parse, json and debug commands
MaxPages == 2
\* calls made on a Graph by a caller of its public functions
MaxOps == 3
\* citations of one article in the runs that compile a single article
MaxCiteLen == 37
\* category constructs the extractor is handed when driven on its own
MaxConstructs == 2

(***************************************************************************)
(* Inputs.                                                                 *)
(***************************************************************************)
NameA == <<"A">>
NameB == <<"B">>
NameC == <<"C">>
\* identities (name, kind): kind TRUE is a category, FALSE an article
CatA == <<NameA, TRUE>>
CatB == <<NameB, TRUE>>
CatC == <<NameC, TRUE>>
ArtA == <<NameA, FALSE>>
Cats == {CatA, CatB, CatC}
Idents == Cats \cup {ArtA}
\* flattened anchor texts of a category construct (before trimming)
AnchorTexts == {<<>>}
\* page titles of the dump
Titles == {NameA, NameB}
\* the positional argument `search` of the command line ("" by default)
Searches == {<<>>, NameA}
\* the subcommand of the command line
Commands == {"cats", "list", "parse", "json", "debug"}
\* the citations of a page as written to the store: format!("{}", cite)
CiteTexts == {<<"q">>}

\* the errors a store call inside the compile visitor returns
VisitorErrs == {"GitBlob", "GitTree"}

\* Option<T>: None is the empty sequence, Some(x) a one-element sequence
None == <<>>
Some(x) == <<x>>

(***************************************************************************)
(* Characters and strings.                                                 *)
(***************************************************************************)
Digits36 == <<"0", "1", "2", "3", "4", "5", "6", "7", "8", "9",
              "a", "b", "c", "d", "e", "f", "g", "h", "i", "j", "k", "l", "m",
              "n", "o", "p", "q", "r", "s", "t", "u", "v", "w", "x", "y", "z">>

\* char::is_alphanumeric on the characters the model uses: digits and
\* letters are, " ", ".", "/", "-" and the en dash are not
IsAlphanumeric(c) ==
  c \in {Digits36[i] : i \in DOMAIN Digits36} \cup {"A", "B", "C"}
\* char::is_whitespace
IsWhitespace(c) == c = " "
\* UTF-8 width of a character: "EN" stands for U+2013 (en dash), three bytes
ByteLen(c) == IF c = "EN" THEN 3 ELSE 1

\* String::len(): the length in bytes
RECURSIVE StrLen(_)
StrLen(s) == IF s = <<>> THEN 0 ELSE ByteLen(Head(s)) + StrLen(Tail(s))

RECURSIVE TrimStart(_)
TrimStart(s) ==
  IF s # <<>> /\ IsWhitespace(Head(s)) THEN TrimStart(Tail(s)) ELSE s

RECURSIVE TrimEnd(_)
TrimEnd(s) ==
  IF s # <<>> /\ IsWhitespace(s[Len(s)])
  THEN TrimEnd(SubSeq(s, 1, Len(s) - 1))
  ELSE s

\* str::trim()
Trim(s) == TrimEnd(TrimStart(s))

\* str::replace("/", "-")
RECURSIVE ReplaceSlash(_)
ReplaceSlash(s) ==
  IF s = <<>> THEN <<>>
  ELSE <<IF Head(s) = "/" THEN "-" ELSE Head(s)>> \o ReplaceSlash(Tail(s))

\* radix_fmt::radix_36(i), formatted
RECURSIVE Radix36(_)
Radix36(i) ==
  IF i < Len(Digits36) THEN <<Digits36[i + 1]>>
  ELSE Radix36(i \div Len(Digits36)) \o <<Digits36[(i % Len(Digits36)) + 1]>>

DotTxt == <<".", "t", "x", "t">>
CatTxt == <<"c", "a", "t">> \o DotTxt
ArtTxt == <<"a", "r", "t">> \o DotTxt

(***************************************************************************)
(* Graph (category_graph.rs).  A graph is a record                         *)
(*   node_data   : sequence of [outgoing, incoming] (sequences of indices) *)
(*   node_labels : BiMap<Nd, (String, bool)>, a set of <<index, identity>> *)
(*   edge_labels : HashMap<Ed, String>, a function on a set of <<l, r>>    *)
(***************************************************************************)
EmptyGraph == [node_data |-> <<>>, node_labels |-> {}, edge_labels |-> <<>>]

GraphLen(g) == Len(g.node_data)

\* node_data[i]
NodeAt(g, i) == g.node_data[i + 1]

\* BiMap::insert that overwrites only the pair of the same left value
BiInsert_KeepsRight(m, l, r) == {p \in m : p[1] # l} \cup {<<l, r>>}

\* BiMap::insert: pairs sharing the left or the right value are overwritten
BiInsert(m, l, r) == {p \in m : p[1] # l /\ p[2] # r} \cup {<<l, r>>}

\* HashMap::insert
MapInsert(m, k, v) ==
  [x \in DOMAIN m \cup {k} |-> IF x = k THEN v ELSE m[x]]

\* the graph after add_vertex(label); the index returned is GraphLen(g)
add_vertex(g, label) ==
  [g EXCEPT !.node_data = Append(@, [outgoing |-> <<>>, incoming |-> <<>>]),
            !.node_labels = BiInsert(@, GraphLen(g), label)]

\* add_edge with the bounds test l + 1 < len, r + 1 < len: the vertex added
\* last is out of bounds
add_edge_OffByOne(g, e, label) ==
  LET l == e[1]
      r == e[2]
  IN IF l + 1 < Cardinality(g.node_labels) /\ r + 1 < Cardinality(g.node_labels)
     THEN [g EXCEPT !.node_data[l + 1].outgoing = Append(@, r),
                    !.node_data[r + 1].incoming = Append(@, l),
                    !.edge_labels = MapInsert(@, e, label)]
     ELSE g

\* add_edge with edge_labels.entry(e).or_insert(label): the first label stays
add_edge_KeepsFirstLabel(g, e, label) ==
  LET l == e[1]
      r == e[2]
  IN IF l < Cardinality(g.node_labels) /\ r < Cardinality(g.node_labels)
     THEN [g EXCEPT !.node_data[l + 1].outgoing = Append(@, r),
                    !.node_data[r + 1].incoming = Append(@, l),
                    !.edge_labels = IF e \in DOMAIN @ THEN @
                                    ELSE MapInsert(@, e, label)]
     ELSE g

\* add_edge that leaves the adjacency lists alone when the edge is there
add_edge_Dedup(g, e, label) ==
  LET l == e[1]
      r == e[2]
  IN IF l < Cardinality(g.node_labels) /\ r < Cardinality(g.node_labels)
     THEN IF e \in DOMAIN g.edge_labels
          THEN [g EXCEPT !.edge_labels = MapInsert(@, e, label)]
          ELSE [g EXCEPT !.node_data[l + 1].outgoing = Append(@, r),
                         !.node_data[r + 1].incoming = Append(@, l),
                         !.edge_labels = MapInsert(@, e, label)]
     ELSE g

\* add_edge that does not push to the incoming list of the target
add_edge_NoIncoming(g, e, label) ==
  LET l == e[1]
      r == e[2]
  IN IF l < Cardinality(g.node_labels) /\ r < Cardinality(g.node_labels)
     THEN [g EXCEPT !.node_data[l + 1].outgoing = Append(@, r),
                    !.edge_labels = MapInsert(@, e, label)]
     ELSE g

add_edge(g, e, label) ==
  LET l == e[1]
      r == e[2]
  IN IF l < Cardinality(g.node_labels) /\ r < Cardinality(g.node_labels)
     THEN [g EXCEPT !.node_data[l + 1].outgoing = Append(@, r),
                    !.node_data[r + 1].incoming = Append(@, l),
                    !.edge_labels = MapInsert(@, e, label)]
     ELSE g

find_vertex(g, label) ==
  IF \E p \in g.node_labels : p[2] = label
  THEN Some((CHOOSE p \in g.node_labels : p[2] = label)[1])
  ELSE None

\* find_or_add_vertex that adds the vertex without looking for it
find_or_add_vertex_AlwaysAdds(g, label) ==
  [graph |-> add_vertex(g, label), n |-> GraphLen(g)]

\* the graph after find_or_add_vertex(label) and the index it returns
find_or_add_vertex(g, label) ==
  LET found == find_vertex(g, label)
  IN IF found # None
     THEN [graph |-> g, n |-> found[1]]
     ELSE [graph |-> add_vertex(g, label), n |-> GraphLen(g)]

add(g, vtx1, edge, vtx2) ==
  LET r1 == find_or_add_vertex(g, vtx1)
      r2 == find_or_add_vertex(r1.graph, vtx2)
  IN add_edge(r2.graph, <<r1.n, r2.n>>, edge)

\* roots() testing n.outgoing.is_empty(): the leaves
RECURSIVE RootsFrom_Outgoing(_, _)
RootsFrom_Outgoing(g, i) ==
  IF i >= GraphLen(g) THEN <<>>
  ELSE (IF NodeAt(g, i).outgoing = <<>> THEN <<i>> ELSE <<>>)
       \o RootsFrom_Outgoing(g, i + 1)

RECURSIVE RootsFrom(_, _)
RootsFrom(g, i) ==
  IF i >= GraphLen(g) THEN <<>>
  ELSE (IF NodeAt(g, i).incoming = <<>> THEN <<i>> ELSE <<>>)
       \o RootsFrom(g, i + 1)

roots(g) == RootsFrom(g, 0)

\* get_vertex_label(id); the unwrap panics when the index has no identity
HasVertexLabel(g, id) == \E p \in g.node_labels : p[1] = id
get_vertex_label(g, id) == (CHOOSE p \in g.node_labels : p[1] = id)[2]

\* get_edge_label(e)
get_edge_label(g, e) == g.edge_labels[e]

(***************************************************************************)
(* CategoryExtractor::extract_node, the Node::Category arm.                *)
(***************************************************************************)
\* the label given to Graph::add for anchor text `text` on document `site`
ExtractLabel(text, site) ==
  LET label == Trim(text)
  IN IF label = <<>> \/ (StrLen(label) = 1 /\ ~IsAlphanumeric(label[1]))
     THEN site
     ELSE label

(***************************************************************************)
(* The object store (git2), reduced to what the run passes through it: an  *)
(* object id is the content it addresses.                                  *)
(***************************************************************************)
\* file modes given to TreeBuilder::insert
ModeBlob == 33188
ModeTree == 16384

\* Repository::blob(bytes)
Blob(bytes) == [kind |-> "blob", bytes |-> bytes, entries |-> {}]
\* TreeBuilder::write()
Tree(entries) == [kind |-> "tree", bytes |-> <<>>, entries |-> entries]
\* TreeBuilder::insert that keeps an entry of the same name beside the new one
TreeInsert_NoReplace(b, name, oid, mode) ==
  b \cup {[name |-> name, oid |-> oid, mode |-> mode]}

\* TreeBuilder::insert(name, oid, mode): an entry of that name is replaced
TreeInsert(b, name, oid, mode) ==
  {e \in b : e.name # name} \cup {[name |-> name, oid |-> oid, mode |-> mode]}

\* Vec::contains
Contains(s, x) == \E i \in DOMAIN s : s[i] = x

(***************************************************************************)
(* State of a run of the "cats" command.                                   *)
(***************************************************************************)
VARIABLES
  pc,           \* where do_main / main stands
  search,       \* args.search
  graph,        \* category_extractor.graph, later CategoryData.0
  found_root,   \* process_categories: found_root (an Option)
  visited,      \* walk_dfs_post_order: visited (BitVec)
  stack,        \* walk_dfs_post_order: stack of <<node, children_visited>>
  path,         \* walk_dfs_post_order: path
  edge_cuts,    \* walk_dfs_post_order: edge_cuts
  calls,        \* the invocations of the visitor f so far, each a record
                \* [node, forbidden, result], result "Ok" or the error
  cat_data,     \* CategoryData: [root, visited], None before it is built
  visited_msg,  \* the "Visited {} out of {} nodes." line: <<count, len>>
  cite_hashes,  \* CiteHashes: node -> sequence of blob ids
  hashes,       \* store_categories_in_git: hashes
  commit,       \* the commit created by repo.commit (an Option of its tree)
  branch,       \* refs/heads/master (an Option of the commit's tree)
  err,          \* the error do_main returns, "none" if none
  stderr,       \* the diagnostic written to stderr (an Option)
  exit_status,  \* the status the process exits with (an Option)
  command,      \* args.command
  stdout,       \* the lines add_articles has printed
  history       \* the calls made on the graph by a caller other than the
                \* run (the specifications of the Graph API below)

argVars == <<search, command>>
logVars == <<stdout, history>>
walkVars == <<visited, stack, path, edge_cuts, calls>>
catVars == <<found_root, cat_data, visited_msg>>
storeVars == <<cite_hashes, hashes, commit, branch>>
outVars == <<err, stderr, exit_status>>
vars == <<pc, search, graph, found_root, visited, stack, path, edge_cuts,
          calls, cat_data, visited_msg, cite_hashes, hashes, commit, branch,
          err, stderr, exit_status, command, stdout, history>>

Init ==
  /\ pc = "init"
  /\ search \in Searches
  /\ graph = EmptyGraph
  /\ found_root = None
  /\ visited = <<>>
  /\ stack = <<>>
  /\ path = {}
  /\ edge_cuts = <<>>
  /\ calls = <<>>
  /\ cat_data = None
  /\ visited_msg = None
  /\ cite_hashes = <<>>
  /\ hashes = <<>>
  /\ commit = None
  /\ branch = None
  /\ err = "none"
  /\ stderr = None
  /\ exit_status = None
  /\ command \in Commands
  /\ stdout = <<>>
  /\ history = <<>>

\* the number of edges added so far (calls of Graph::add)
RECURSIVE SumOutgoing(_)
SumOutgoing(nd) ==
  IF nd = <<>> THEN 0 ELSE Len(Head(nd).outgoing) + SumOutgoing(Tail(nd))

\* a `?` in do_main: the error is returned to main, whose Err arm prints it;
\* main then returns, which ends the process with status 0
ReturnErr(e) ==
  /\ pc' = "exit"
  /\ err' = e
  /\ stderr' = Some(<<"ERROR", e>>)
  /\ exit_status' = Some(0)

\* a panic: the message goes to stderr and the process exits with 101
Panic(msg) ==
  /\ pc' = "exit"
  /\ stderr' = Some(<<"panic", msg>>)
  /\ exit_status' = Some(101)
  /\ UNCHANGED err

(***************************************************************************)
(* do_main: Repository::init and get_reader.                               *)
(***************************************************************************)
RepositoryInit ==
  /\ pc = "init"
  /\ command = "cats"
  /\ pc' = "extract"
  /\ UNCHANGED <<argVars, logVars, graph, walkVars, catVars, storeVars,
                 outVars>>

RepositoryInitFail ==
  /\ pc = "init"
  /\ command = "cats"
  /\ \E e \in {"GitInit", "Io"} : ReturnErr(e)
  /\ UNCHANGED <<argVars, logVars, graph, walkVars, catVars, storeVars>>

(***************************************************************************)
(* add_articles: the pass of the list, parse, json and debug commands.     *)
(***************************************************************************)
\* get_reader(&args)? of the else branch of do_main
GetReader ==
  /\ pc = "init"
  /\ command # "cats"
  /\ pc' = "articles"
  /\ UNCHANGED <<argVars, logVars, graph, walkVars, catVars, storeVars, outVars>>

GetReaderFail ==
  /\ pc = "init"
  /\ command # "cats"
  /\ ReturnErr("Io")
  /\ UNCHANGED <<argVars, logVars, graph, walkVars, catVars, storeVars>>

\* the dump reader yields Ok(page): list prints every page, the other
\* commands the page whose title is args.search
ArticlePage ==
  /\ pc = "articles"
  /\ Len(stdout) < MaxPages
  /\ \E title \in Titles :
       stdout' = IF command = "list" \/ title = search
                 THEN Append(stdout, title)
                 ELSE stdout
  /\ UNCHANGED <<pc, argVars, history, graph, walkVars, catVars, storeVars,
                 outVars>>

\* the dump reader yields Err: eprintln! and std::process::exit(1)
ArticleReadError ==
  /\ pc = "articles"
  /\ pc' = "exit"
  /\ stderr' = Some(<<"Error", "MediawikiParse">>)
  /\ exit_status' = Some(1)
  /\ UNCHANGED <<err, argVars, logVars, graph, walkVars, catVars, storeVars>>

\* the dump ends: add_articles and do_main return Ok(())
ArticlesDone ==
  /\ pc = "articles"
  /\ pc' = "returned"
  /\ UNCHANGED <<argVars, logVars, graph, walkVars, catVars, storeVars, outVars>>

(***************************************************************************)
(* process_categories: the pass over the dump.                             *)
(***************************************************************************)
\* a page `site` whose parse tree holds a category construct
ExtractCategory ==
  /\ pc = "extract"
  /\ SumOutgoing(graph.node_data) < MaxAdds
  /\ \E site \in Idents, target \in Cats, text \in AnchorTexts :
       graph' = add(graph, target, ExtractLabel(text, site[1]), site)
  /\ UNCHANGED <<pc, argVars, logVars, walkVars, catVars, storeVars, outVars>>

\* the dump reader yields Err
ExtractReadError ==
  /\ pc = "extract"
  /\ ReturnErr("MediawikiParse")
  /\ UNCHANGED <<argVars, logVars, graph, walkVars, catVars, storeVars>>

\* FindRoot without the fallback to roots() when the search is not found
FindRoot_NoFallback(g, s) ==
  LET first == IF roots(g) = <<>> THEN None ELSE Some(roots(g)[1])
  IN IF s # <<>> THEN find_vertex(g, <<s, TRUE>>) ELSE first

\* FindRoot falling back to node 0 when roots() is empty
FindRoot_AnyNode(g, s) ==
  LET first == IF roots(g) = <<>>
               THEN (IF GraphLen(g) > 0 THEN Some(0) ELSE None)
               ELSE Some(roots(g)[1])
  IN IF s # <<>>
     THEN (IF find_vertex(g, <<s, TRUE>>) = None
           THEN first
           ELSE find_vertex(g, <<s, TRUE>>))
     ELSE first

\* process_categories: the root chosen for `search`
FindRoot(g, s) ==
  LET first == IF roots(g) = <<>> THEN None ELSE Some(roots(g)[1])
  IN IF s # <<>>
     THEN (IF find_vertex(g, <<s, TRUE>>) = None
           THEN first
           ELSE find_vertex(g, <<s, TRUE>>))
     ELSE first

\* WalkStart with the bit vector built by from_elem(len, true)
WalkStart_AllSet(start) ==
  /\ visited' = [i \in 0 .. GraphLen(graph) - 1 |-> TRUE]
  /\ stack' = <<<<start, 0>>>>
  /\ path' = {}
  /\ edge_cuts' = <<>>
  /\ calls' = <<>>

\* walk_dfs_post_order: the locals before the loop
WalkStart(start) ==
  /\ visited' = [i \in 0 .. GraphLen(graph) - 1 |-> FALSE]
  /\ stack' = <<<<start, 0>>>>
  /\ path' = {}
  /\ edge_cuts' = <<>>
  /\ calls' = <<>>

\* the dump ends: the root is chosen and the diagnostic walk begins
ExtractDone ==
  /\ pc = "extract"
  /\ found_root' = FindRoot(graph, search)
  /\ IF found_root' # None
     THEN /\ pc' = "walk1"
          /\ WalkStart(found_root'[1])
          /\ UNCHANGED outVars
     ELSE /\ ReturnErr("NoRootCategory")
          /\ UNCHANGED walkVars
  /\ UNCHANGED <<argVars, logVars, graph, cat_data, visited_msg, storeVars>>

(***************************************************************************)
(* Graph::walk_dfs_post_order, one iteration of its loop per step.         *)
(***************************************************************************)
Walking == pc \in {"walk1", "walk2"} /\ stack # <<>>

\* stack.pop()
Top == stack[Len(stack)]
Popped == SubSeq(stack, 1, Len(stack) - 1)

\* one invocation of the visitor: f(node, forbidden) and what it returned
Call(node, forbidden, result) ==
  [node |-> node, forbidden |-> forbidden, result |-> result]

\* edge_cuts.get(&node).unwrap_or(&empty)
Cuts(node) == IF node \in DOMAIN edge_cuts THEN edge_cuts[node] ELSE <<>>

\* WalkInspect with the loop test made before path.insert(node): an edge
\* from a node to itself is not seen as a loop
WalkInspect_TestBeforeInsert ==
  /\ Walking
  /\ LET node == Top[1]
         children_visited == Top[2]
         outgoing == NodeAt(graph, node).outgoing
     IN /\ children_visited < Len(outgoing)
        /\ LET next_child == outgoing[children_visited + 1]
               looped == next_child \in path
               marked == [visited EXCEPT ![node] = TRUE]
           IN /\ path' = path \cup {node}
              /\ visited' = marked
              /\ edge_cuts' =
                   IF looped
                   THEN MapInsert(edge_cuts, node,
                                  Append(Cuts(node), next_child))
                   ELSE edge_cuts
              /\ stack' = Popped \o <<<<node, children_visited + 1>>>>
                   \o (IF marked[next_child] THEN <<>>
                       ELSE <<<<next_child, 0>>>>)
              /\ UNCHANGED <<pc, calls, outVars>>
  /\ UNCHANGED <<argVars, logVars, graph, catVars, storeVars>>

\* WalkInspect pushing the child whenever it is not on the path, without
\* looking at visited
WalkInspect_NoVisitedTest ==
  /\ Walking
  /\ LET node == Top[1]
         children_visited == Top[2]
         outgoing == NodeAt(graph, node).outgoing
     IN /\ children_visited < Len(outgoing)
        /\ LET next_child == outgoing[children_visited + 1]
               looped == next_child \in path \cup {node}
           IN /\ path' = path \cup {node}
              /\ visited' = [visited EXCEPT ![node] = TRUE]
              /\ edge_cuts' =
                   IF looped
                   THEN MapInsert(edge_cuts, node,
                                  Append(Cuts(node), next_child))
                   ELSE edge_cuts
              /\ stack' = Popped \o <<<<node, children_visited + 1>>>>
                   \o (IF looped THEN <<>> ELSE <<<<next_child, 0>>>>)
              /\ UNCHANGED <<pc, calls, outVars>>
  /\ UNCHANGED <<argVars, logVars, graph, catVars, storeVars>>

\* WalkInspect pushing the frame back without advancing children_visited
WalkInspect_NoAdvance ==
  /\ Walking
  /\ LET node == Top[1]
         children_visited == Top[2]
         outgoing == NodeAt(graph, node).outgoing
     IN /\ children_visited < Len(outgoing)
        /\ LET next_child == outgoing[children_visited + 1]
               looped == next_child \in path \cup {node}
               marked == [visited EXCEPT ![node] = TRUE]
           IN /\ path' = path \cup {node}
              /\ visited' = marked
              /\ edge_cuts' =
                   IF looped
                   THEN MapInsert(edge_cuts, node,
                                  Append(Cuts(node), next_child))
                   ELSE edge_cuts
              /\ stack' = Popped \o <<<<node, children_visited>>>>
                   \o (IF marked[next_child] THEN <<>>
                       ELSE <<<<next_child, 0>>>>)
              /\ UNCHANGED <<pc, calls, outVars>>
  /\ UNCHANGED <<argVars, logVars, graph, catVars, storeVars>>

\* WalkInspect going through outgoing from its last entry to its first
WalkInspect_LastChildFirst ==
  /\ Walking
  /\ LET node == Top[1]
         children_visited == Top[2]
         outgoing == NodeAt(graph, node).outgoing
     IN /\ children_visited < Len(outgoing)
        /\ LET next_child == outgoing[Len(outgoing) - children_visited]
               looped == next_child \in path \cup {node}
               marked == [visited EXCEPT ![node] = TRUE]
           IN /\ path' = path \cup {node}
              /\ visited' = marked
              /\ edge_cuts' =
                   IF looped
                   THEN MapInsert(edge_cuts, node,
                                  Append(Cuts(node), next_child))
                   ELSE edge_cuts
              /\ stack' = Popped \o <<<<node, children_visited + 1>>>>
                   \o (IF marked[next_child] THEN <<>>
                       ELSE <<<<next_child, 0>>>>)
              /\ UNCHANGED <<pc, calls, outVars>>
  /\ UNCHANGED <<argVars, logVars, graph, catVars, storeVars>>

\* WalkInspect that finds the loop but does not record the child in
\* edge_cuts
WalkInspect_NoCut ==
  /\ Walking
  /\ LET node == Top[1]
         children_visited == Top[2]
         outgoing == NodeAt(graph, node).outgoing
     IN /\ children_visited < Len(outgoing)
        /\ LET next_child == outgoing[children_visited + 1]
               marked == [visited EXCEPT ![node] = TRUE]
           IN /\ path' = path \cup {node}
              /\ visited' = marked
              /\ edge_cuts' = edge_cuts
              /\ stack' = Popped \o <<<<node, children_visited + 1>>>>
                   \o (IF marked[next_child] THEN <<>>
                       ELSE <<<<next_child, 0>>>>)
              /\ UNCHANGED <<pc, calls, outVars>>
  /\ UNCHANGED <<argVars, logVars, graph, catVars, storeVars>>

\* the branch children_visited < outgoing.len(): the next child is inspected
WalkInspect ==
  /\ Walking
  /\ LET node == Top[1]
         children_visited == Top[2]
         outgoing == NodeAt(graph, node).outgoing
     IN /\ children_visited < Len(outgoing)
        /\ LET next_child == outgoing[children_visited + 1]
               looped == next_child \in path \cup {node}
               marked == [visited EXCEPT ![node] = TRUE]
           IN IF looped /\ ~(HasVertexLabel(graph, node)
                             /\ HasVertexLabel(graph, next_child))
              THEN /\ Panic("get_vertex_label: unwrap on None")
                   /\ UNCHANGED walkVars
              ELSE /\ path' = path \cup {node}
                   /\ visited' = marked
                   /\ edge_cuts' =
                        IF looped
                        THEN MapInsert(edge_cuts, node,
                                       Append(Cuts(node), next_child))
                        ELSE edge_cuts
                   /\ stack' = Popped \o <<<<node, children_visited + 1>>>>
                        \o (IF marked[next_child] THEN <<>>
                            ELSE <<<<next_child, 0>>>>)
                   /\ UNCHANGED <<pc, calls, outVars>>
  /\ UNCHANGED <<argVars, logVars, graph, catVars, storeVars>>

\* Walk1Visit without path.remove(&node): a visited node stays on the path
Walk1Visit_NoPathRemove ==
  /\ pc = "walk1"
  /\ stack # <<>>
  /\ LET node == Top[1]
         children_visited == Top[2]
     IN /\ children_visited >= Len(NodeAt(graph, node).outgoing)
        /\ visited' = [visited EXCEPT ![node] = TRUE]
        /\ calls' = Append(calls, Call(node, Cuts(node), "Ok"))
        /\ path' = path \cup {node}
        /\ stack' = Popped
  /\ UNCHANGED <<pc, argVars, logVars, graph, edge_cuts, catVars, storeVars,
                 outVars>>

\* the else branch with the visitor of process_categories: |_, _| Ok(())
Walk1Visit ==
  /\ pc = "walk1"
  /\ stack # <<>>
  /\ LET node == Top[1]
         children_visited == Top[2]
     IN /\ children_visited >= Len(NodeAt(graph, node).outgoing)
        /\ visited' = [visited EXCEPT ![node] = TRUE]
        /\ calls' = Append(calls, Call(node, Cuts(node), "Ok"))
        /\ path' = (path \cup {node}) \ {node}
        /\ stack' = Popped
  /\ UNCHANGED <<pc, argVars, logVars, graph, edge_cuts, catVars, storeVars,
                 outVars>>

\* count_ones(&visited)
count_ones(v) == Cardinality({i \in DOMAIN v : v[i]})

\* the walk of process_categories returns Ok(visited)
Walk1Done ==
  /\ pc = "walk1"
  /\ stack = <<>>
  /\ visited_msg' = Some(<<count_ones(visited), GraphLen(graph)>>)
  /\ cat_data' = Some([root |-> found_root[1], visited |-> visited])
  /\ pc' = "cites"
  /\ UNCHANGED <<argVars, logVars, graph, found_root, walkVars, storeVars,
                 outVars>>

(***************************************************************************)
(* add_articles_to_git: the second pass over the dump.                     *)
(***************************************************************************)
\* CiteHashes::get_all(&n)
CitesOf(n) == IF n \in DOMAIN cite_hashes THEN cite_hashes[n] ELSE <<>>

RECURSIVE SumCites(_, _)
SumCites(m, keys) ==
  IF keys = {} THEN 0
  ELSE LET k == CHOOSE x \in keys : TRUE
       IN Len(m[k]) + SumCites(m, keys \ {k})

\* the articles of the dump that are vertices of the graph
ArticlesInGraph ==
  {id \in Idents : ~id[2] /\ find_vertex(graph, id) # None}

\* an article page that is a vertex of the graph and holds one citation
CitePage ==
  /\ pc = "cites"
  /\ SumCites(cite_hashes, DOMAIN cite_hashes) < MaxCites
  /\ \E id \in ArticlesInGraph, out \in CiteTexts :
       LET v == find_vertex(graph, id)[1]
       IN cite_hashes' = MapInsert(cite_hashes, v, Append(CitesOf(v), Blob(out)))
  /\ UNCHANGED <<pc, argVars, logVars, graph, walkVars, catVars, hashes, commit,
                 branch, outVars>>

\* repo.blob(...)? fails on a citation
CiteBlobFail ==
  /\ pc = "cites"
  /\ ArticlesInGraph # {}
  /\ ReturnErr("GitBlob")
  /\ UNCHANGED <<argVars, logVars, graph, walkVars, catVars, storeVars>>

\* CiteReadError with the error printed and the loop going on to the next
\* page
CiteReadError_Continues ==
  /\ pc = "cites"
  /\ stderr' = Some(<<"Error", "MediawikiParse">>)
  /\ UNCHANGED <<pc, err, exit_status, argVars, logVars, graph, walkVars,
                 catVars, storeVars>>

\* the dump reader yields Err: eprintln! and std::process::exit(1)
CiteReadError ==
  /\ pc = "cites"
  /\ pc' = "exit"
  /\ stderr' = Some(<<"Error", "MediawikiParse">>)
  /\ exit_status' = Some(1)
  /\ UNCHANGED <<err, argVars, logVars, graph, walkVars, catVars, storeVars>>

\* the dump ends; store_categories_in_git begins its walk
CiteDone ==
  /\ pc = "cites"
  /\ pc' = "walk2"
  /\ hashes' = <<>>
  /\ WalkStart(cat_data[1].root)
  /\ UNCHANGED <<argVars, logVars, graph, catVars, cite_hashes, commit,
                 branch, outVars>>

(***************************************************************************)
(* store_categories_in_git: the visitor that compiles a node.              *)
(***************************************************************************)
get_git_file_name(g, from, to) ==
  LET el == get_edge_label(g, <<from, to>>)
      name == IF el # <<>> THEN el ELSE get_vertex_label(g, to)[1]
  IN ReplaceSlash(name)

\* the loop over data.outgoing, from position i on
RECURSIVE InsertChildren(_, _, _, _)
InsertChildren(builder, n, forbidden, i) ==
  LET outgoing == NodeAt(graph, n).outgoing
  IN IF i > Len(outgoing) THEN builder
     ELSE IF Contains(forbidden, outgoing[i])
          THEN InsertChildren(builder, n, forbidden, i + 1)
          ELSE InsertChildren(
                 TreeInsert(builder, get_git_file_name(graph, n, outgoing[i]),
                            hashes[outgoing[i]], ModeTree),
                 n, forbidden, i + 1)

\* InsertCites with the counter incremented after the insertion: the names
\* start at "0.txt"
RECURSIVE InsertCites_FromZero(_, _, _)
InsertCites_FromZero(builder, cites, i) ==
  IF i > Len(cites) THEN builder
  ELSE InsertCites_FromZero(
         TreeInsert(builder, Radix36(i - 1) \o DotTxt, cites[i], ModeBlob),
         cites, i + 1)

\* the loop over the citations of the node, from position i on
RECURSIVE InsertCites(_, _, _)
InsertCites(builder, cites, i) ==
  IF i > Len(cites) THEN builder
  ELSE InsertCites(TreeInsert(builder, Radix36(i) \o DotTxt, cites[i], ModeBlob),
                   cites, i + 1)

\* hashes.get(out) is Some for every child the visitor looks up
ChildrenAdded(n, forbidden) ==
  \A i \in DOMAIN NodeAt(graph, n).outgoing :
    Contains(forbidden, NodeAt(graph, n).outgoing[i])
      \/ NodeAt(graph, n).outgoing[i] \in DOMAIN hashes

\* the tree the visitor writes for node n
CompileTree(n, forbidden) ==
  LET v_label == get_vertex_label(graph, n)
      blob_name == IF v_label[2] THEN CatTxt ELSE ArtTxt
      named == TreeInsert({}, blob_name, Blob(v_label[1]), ModeBlob)
      withChildren == InsertChildren(named, n, forbidden, 1)
  IN Tree(InsertCites(withChildren, CitesOf(n), 1))

\* the visitor's tree as a function of what it reads: the graph g, the
\* citations `cites`, the hashes `hs` of the nodes compiled before, the node
\* and its forbidden list
RECURSIVE ChildEntries(_, _, _, _, _, _)
ChildEntries(builder, g, hs, n, forbidden, i) ==
  LET outgoing == NodeAt(g, n).outgoing
  IN IF i > Len(outgoing) THEN builder
     ELSE IF Contains(forbidden, outgoing[i])
          THEN ChildEntries(builder, g, hs, n, forbidden, i + 1)
          ELSE ChildEntries(
                 TreeInsert(builder, get_git_file_name(g, n, outgoing[i]),
                            hs[outgoing[i]], ModeTree),
                 g, hs, n, forbidden, i + 1)

TreeOf(g, cites, hs, n, forbidden) ==
  LET v_label == get_vertex_label(g, n)
      blob_name == IF v_label[2] THEN CatTxt ELSE ArtTxt
      named == TreeInsert({}, blob_name, Blob(v_label[1]), ModeBlob)
      withChildren == ChildEntries(named, g, hs, n, forbidden, 1)
  IN Tree(InsertCites(withChildren,
                      IF n \in DOMAIN cites THEN cites[n] ELSE <<>>, 1))

\* the orders in which a sequence of length n can be gone through
Orders(n) ==
  {p \in [1 .. n -> 1 .. n] : \A i, j \in 1 .. n : p[i] = p[j] => i = j}

\* CompileNode with data.outgoing gone through in an order that is not fixed
\* by the graph (as a HashSet's is not): it differs from run to run
CompileNode_AnyChildOrder ==
  /\ pc = "walk2"
  /\ stack # <<>>
  /\ LET node == Top[1]
         children_visited == Top[2]
         forbidden == Cuts(node)
         outgoing == NodeAt(graph, node).outgoing
     IN /\ children_visited >= Len(outgoing)
        /\ ChildrenAdded(node, forbidden)
        /\ visited' = [visited EXCEPT ![node] = TRUE]
        /\ calls' = Append(calls, Call(node, forbidden, "Ok"))
        /\ stack' = Popped
        /\ path' = (path \cup {node}) \ {node}
        /\ \E p \in Orders(Len(outgoing)) :
             hashes' = MapInsert(hashes, node,
               TreeOf([graph EXCEPT !.node_data[node + 1].outgoing =
                         [i \in 1 .. Len(outgoing) |-> outgoing[p[i]]]],
                      cite_hashes, hashes, node, forbidden))
  /\ UNCHANGED <<pc, outVars>>
  /\ UNCHANGED <<argVars, logVars, graph, edge_cuts, catVars, cite_hashes,
                 commit, branch>>

\* the else branch with the visitor of store_categories_in_git, no store
\* call failing
CompileNode ==
  /\ pc = "walk2"
  /\ stack # <<>>
  /\ LET node == Top[1]
         children_visited == Top[2]
         forbidden == Cuts(node)
     IN /\ children_visited >= Len(NodeAt(graph, node).outgoing)
        /\ visited' = [visited EXCEPT ![node] = TRUE]
        /\ calls' = Append(calls, Call(node, forbidden, "Ok"))
        /\ stack' = Popped
        /\ IF ~HasVertexLabel(graph, node)
           THEN /\ Panic("get_vertex_label: unwrap on None")
                /\ path' = path \cup {node}
                /\ UNCHANGED hashes
           ELSE IF ~ChildrenAdded(node, forbidden)
           THEN /\ Panic("Children should be already added")
                /\ path' = path \cup {node}
                /\ UNCHANGED hashes
           ELSE /\ hashes' = MapInsert(hashes, node, CompileTree(node, forbidden))
                /\ path' = (path \cup {node}) \ {node}
                /\ UNCHANGED <<pc, outVars>>
  /\ UNCHANGED <<argVars, logVars, graph, edge_cuts, catVars, cite_hashes,
                 commit, branch>>

\* CompileFail with the visitor's result dropped (no `?`): the walk goes on
CompileFail_Swallowed ==
  /\ pc = "walk2"
  /\ stack # <<>>
  /\ \E e \in VisitorErrs :
       LET node == Top[1]
           children_visited == Top[2]
       IN /\ children_visited >= Len(NodeAt(graph, node).outgoing)
          /\ visited' = [visited EXCEPT ![node] = TRUE]
          /\ calls' = Append(calls, Call(node, Cuts(node), e))
          /\ path' = (path \cup {node}) \ {node}
          /\ stack' = Popped
          /\ UNCHANGED <<pc, outVars>>
  /\ UNCHANGED <<argVars, logVars, graph, edge_cuts, catVars, storeVars>>

\* the visitor returns Err: a blob, treebuilder, insert or write call failed;
\* `f(node, forbidden)?` returns it from the walk, and `?` from do_main
CompileFail ==
  /\ pc = "walk2"
  /\ stack # <<>>
  /\ \E e \in VisitorErrs :
       LET node == Top[1]
           children_visited == Top[2]
       IN /\ children_visited >= Len(NodeAt(graph, node).outgoing)
          /\ visited' = [visited EXCEPT ![node] = TRUE]
          /\ calls' = Append(calls, Call(node, Cuts(node), e))
          /\ path' = path \cup {node}
          /\ stack' = Popped
          /\ ReturnErr(e)
  /\ UNCHANGED <<argVars, logVars, graph, edge_cuts, catVars, storeVars>>

(***************************************************************************)
(* store_categories_in_git after the walk, and main.                       *)
(***************************************************************************)
\* StoreCommit with repo.commit given Some("refs/heads/master") as the ref
\* to update: the ref is set as the commit is created
StoreCommit_UpdateRef ==
  /\ pc = "walk2"
  /\ stack = <<>>
  /\ LET root == cat_data[1].root
     IN IF root \in DOMAIN hashes
        THEN /\ commit' = Some(hashes[root])
             /\ branch' = Some(hashes[root])
             /\ pc' = "branch"
             /\ UNCHANGED outVars
        ELSE /\ Panic("hashes.get(&root): unwrap on None")
             /\ UNCHANGED <<commit, branch>>
  /\ UNCHANGED <<argVars, logVars, graph, walkVars, catVars, cite_hashes,
                 hashes>>

\* the walk returns Ok; the commit wrapping the root tree is created
StoreCommit ==
  /\ pc = "walk2"
  /\ stack = <<>>
  /\ LET root == cat_data[1].root
     IN IF root \in DOMAIN hashes
        THEN /\ commit' = Some(hashes[root])
             /\ pc' = "branch"
             /\ UNCHANGED outVars
        ELSE /\ Panic("hashes.get(&root): unwrap on None")
             /\ UNCHANGED commit
  /\ UNCHANGED <<argVars, logVars, graph, walkVars, catVars, cite_hashes,
                 hashes, branch>>

\* find_tree, Signature::now or repo.commit fails
StoreCommitFail ==
  /\ pc = "walk2"
  /\ stack = <<>>
  /\ ReturnErr("GitCommit")
  /\ UNCHANGED <<argVars, logVars, graph, walkVars, catVars, storeVars>>

\* repo.branch("master", &c, false) sets the ref; do_main returns Ok(())
StoreBranch ==
  /\ pc = "branch"
  /\ branch' = commit
  /\ pc' = "returned"
  /\ UNCHANGED <<argVars, logVars, graph, walkVars, catVars, cite_hashes,
                 hashes,
                 commit, outVars>>

\* find_commit or repo.branch fails
StoreBranchFail ==
  /\ pc = "branch"
  /\ ReturnErr("GitRef")
  /\ UNCHANGED <<argVars, logVars, graph, walkVars, catVars, storeVars>>

\* main, the arm Ok(()) => {}: the process ends by returning from main
MainExit ==
  /\ pc = "returned"
  /\ pc' = "exit"
  /\ exit_status' = Some(0)
  /\ UNCHANGED <<err, stderr, argVars, logVars, graph, walkVars, catVars,
                 storeVars>>

Next ==
  \/ RepositoryInit
  \/ RepositoryInitFail
  \/ GetReader
  \/ GetReaderFail
  \/ ArticlePage
  \/ ArticleReadError
  \/ ArticlesDone
  \/ ExtractCategory
  \/ ExtractReadError
  \/ ExtractDone
  \/ WalkInspect
  \/ Walk1Visit
  \/ Walk1Done
  \/ CitePage
  \/ CiteBlobFail
  \/ CiteReadError
  \/ CiteDone
  \/ CompileNode
  \/ CompileFail
  \/ StoreCommit
  \/ StoreCommitFail
  \/ StoreBranch
  \/ StoreBranchFail
  \/ MainExit

Spec == Init /\ [][Next]_vars

\* a sequential program: a step that can be taken is taken
FairSpec == Spec /\ WF_vars(Next)

(***************************************************************************)
(* The public functions of Graph, called in any order by a caller that     *)
(* builds a graph with find_or_add_vertex and add, as the extractor does.  *)
(***************************************************************************)
\* identities and edge labels the caller passes
ApiIdents == {CatA, CatB, ArtA}
ApiLabels == {<<"x">>, <<"y">>}

\* what the run of main holds, untouched by a caller of Graph
runVars == <<pc, argVars, stdout, walkVars, catVars, storeVars, outVars>>

\* one call as `history` keeps it: the function, its arguments, the index it
\* returned (an Option), and the node count before and after the call
ApiCall(op, args, ret, g, h) ==
  [op |-> op, args |-> args, ret |-> ret,
   before |-> GraphLen(g), after |-> GraphLen(h)]

GraphInit ==
  /\ pc = "api"
  /\ search = <<>>
  /\ command = "cats"
  /\ graph = EmptyGraph
  /\ history = <<>>
  /\ stdout = <<>>
  /\ found_root = None
  /\ visited = <<>>
  /\ stack = <<>>
  /\ path = {}
  /\ edge_cuts = <<>>
  /\ calls = <<>>
  /\ cat_data = None
  /\ visited_msg = None
  /\ cite_hashes = <<>>
  /\ hashes = <<>>
  /\ commit = None
  /\ branch = None
  /\ err = "none"
  /\ stderr = None
  /\ exit_status = None

\* graph.find_or_add_vertex(label)
ApiFindOrAddVertex ==
  /\ pc = "api"
  /\ Len(history) < MaxOps
  /\ \E label \in ApiIdents :
       LET r == find_or_add_vertex(graph, label)
       IN /\ graph' = r.graph
          /\ history' = Append(history,
               ApiCall("find_or_add_vertex", <<label>>, Some(r.n), graph, r.graph))
  /\ UNCHANGED runVars

\* graph.add(vtx1, edge, vtx2)
ApiAdd ==
  /\ pc = "api"
  /\ Len(history) < MaxOps
  /\ \E vtx1 \in ApiIdents, edge \in ApiLabels, vtx2 \in ApiIdents :
       /\ graph' = add(graph, vtx1, edge, vtx2)
       /\ history' = Append(history,
            ApiCall("add", <<vtx1, edge, vtx2>>, None, graph, graph'))
  /\ UNCHANGED runVars

\* graph.roots()
ApiRoots ==
  /\ pc = "api"
  /\ Len(history) < MaxOps
  /\ history' = Append(history,
       ApiCall("roots", <<>>, Some(roots(graph)), graph, graph))
  /\ UNCHANGED <<graph, runVars>>

GraphNext ==
  \/ ApiFindOrAddVertex
  \/ ApiAdd
  \/ ApiRoots

GraphSpec == GraphInit /\ [][GraphNext]_vars

(***************************************************************************)
(* The functions of Graph that add vertices, called in any order:          *)
(* add_vertex is public and takes any identity, present or not.            *)
(***************************************************************************)
\* graph.add_vertex(label)
ApiAddVertex ==
  /\ pc = "api"
  /\ Len(history) < MaxOps
  /\ \E label \in ApiIdents :
       /\ graph' = add_vertex(graph, label)
       /\ history' = Append(history,
            ApiCall("add_vertex", <<label>>, Some(GraphLen(graph)), graph, graph'))
  /\ UNCHANGED runVars

VertexNext ==
  \/ ApiAddVertex
  \/ ApiFindOrAddVertex
  \/ ApiAdd

VertexSpec == GraphInit /\ [][VertexNext]_vars

(***************************************************************************)
(* The functions of Graph that add edges, called in any order: add_edge is *)
(* public and takes any pair of indices, those of no node included.        *)
(***************************************************************************)
\* indices a caller of add_edge passes: one for each node there can be
ApiIndices == 0 .. Cardinality(ApiIdents) - 1
EdgeLabels == {<<"y">>}

\* graph.add_edge((l, r), label)
ApiAddEdge ==
  /\ pc = "api"
  /\ Len(history) < MaxOps
  /\ \E l \in ApiIndices, r \in ApiIndices, label \in EdgeLabels :
       /\ graph' = add_edge(graph, <<l, r>>, label)
       /\ history' = Append(history,
            ApiCall("add_edge", <<l, r, label>>, None, graph, graph'))
  /\ UNCHANGED runVars

EdgeNext ==
  \/ ApiAdd
  \/ ApiAddEdge

EdgeSpec == GraphInit /\ [][EdgeNext]_vars

(***************************************************************************)
(* The runs of the "cats" command on a dump of one article page A that is  *)
(* in category A and holds any number of citations, from the end of the    *)
(* citation pass on.                                                       *)
(***************************************************************************)
\* the text of the j-th citation of the page: all alike, or alternating
CiteBody(p, j) == IF p = 1 \/ j % 2 = 1 THEN <<"q">> ELSE <<"r">>
\* the blob ids add_articles_to_git has collected for the page
CiteInputs ==
  {[j \in 1 .. k |-> Blob(CiteBody(p, j))] : k \in 0 .. MaxCiteLen, p \in {1, 2}}

\* the state in which add_articles_to_git returns: category A is node 0 and
\* the root, the article node 1, and the diagnostic walk has visited both
CiteInit ==
  /\ pc = "cites"
  /\ search = <<>>
  /\ command = "cats"
  /\ stdout = <<>>
  /\ history = <<>>
  /\ graph = add(EmptyGraph, CatA, ExtractLabel(<<>>, NameA), ArtA)
  /\ found_root = Some(0)
  /\ visited = [i \in 0 .. 1 |-> TRUE]
  /\ stack = <<>>
  /\ path = {}
  /\ edge_cuts = <<>>
  /\ calls = <<Call(1, <<>>, "Ok"), Call(0, <<>>, "Ok")>>
  /\ cat_data = Some([root |-> 0, visited |-> [i \in 0 .. 1 |-> TRUE]])
  /\ visited_msg = Some(<<2, 2>>)
  /\ \E cites \in CiteInputs :
       cite_hashes = IF cites = <<>> THEN <<>> ELSE MapInsert(<<>>, 1, cites)
  /\ hashes = <<>>
  /\ commit = None
  /\ branch = None
  /\ err = "none"
  /\ stderr = None
  /\ exit_status = None

CiteNext ==
  \/ CiteDone
  \/ WalkInspect
  \/ CompileNode
  \/ StoreCommit
  \/ StoreBranch
  \/ MainExit

CiteSpec == CiteInit /\ [][CiteNext]_vars

(***************************************************************************)
(* CategoryExtractor::extract_node handed category constructs with any     *)
(* anchor text, on documents of any name.                                  *)
(***************************************************************************)
\* flattened anchor texts (extr.result()): empty, blank, one or two ASCII
\* punctuation characters with or without blanks around, an en dash, and
\* alphanumeric text
LabelTexts ==
  {<<>>, <<" ">>, <<"-">>, <<" ", "-", " ">>, <<"EN">>, <<" ", "EN">>,
   <<"-", "-">>, <<"A">>, <<" ", "A", "B", " ">>}
\* the documents: an article and a category of alphanumeric name, and an
\* article whose name is a punctuation character
LabelSites == {ArtA, CatB, <<<<"-">>, FALSE>>}

\* extract_node(&Node::Category { target, ordinal, .. }) with self.site and
\* self.is_category set to `site`
ExtractNode ==
  /\ pc = "extract"
  /\ Len(history) < MaxConstructs
  /\ \E target \in Cats, text \in LabelTexts, site \in LabelSites :
       /\ graph' = add(graph, target, ExtractLabel(text, site[1]), site)
       /\ history' = Append(history,
            ApiCall("extract_node", <<target, text, site>>, None, graph, graph'))
  /\ UNCHANGED runVars

ExtractInit ==
  /\ pc = "extract"
  /\ search = <<>>
  /\ command = "cats"
  /\ graph = EmptyGraph
  /\ history = <<>>
  /\ stdout = <<>>
  /\ found_root = None
  /\ visited = <<>>
  /\ stack = <<>>
  /\ path = {}
  /\ edge_cuts = <<>>
  /\ calls = <<>>
  /\ cat_data = None
  /\ visited_msg = None
  /\ cite_hashes = <<>>
  /\ hashes = <<>>
  /\ commit = None
  /\ branch = None
  /\ err = "none"
  /\ stderr = None
  /\ exit_status = None

ExtractNext == ExtractNode

ExtractSpec == ExtractInit /\ [][ExtractNext]_vars

(***************************************************************************)
(* The runs of the "cats" command, no store call failing, on dumps whose   *)
(* category constructs bear anchor texts that make entry names meet: the   *)
(* name of the category marker, and two texts that differ in '/' and '-'.  *)
(***************************************************************************)
NameTexts == {<<>>, CatTxt, <<"a", "/", "b">>, <<"a", "-", "b">>}
\* the documents holding the constructs, and the categories they name
NameSites == {ArtA, CatA}
NameTargets == {CatA, CatB}

NameInit ==
  /\ pc = "extract"
  /\ search = <<>>
  /\ command = "cats"
  /\ graph = EmptyGraph
  /\ history = <<>>
  /\ stdout = <<>>
  /\ found_root = None
  /\ visited = <<>>
  /\ stack = <<>>
  /\ path = {}
  /\ edge_cuts = <<>>
  /\ calls = <<>>
  /\ cat_data = None
  /\ visited_msg = None
  /\ cite_hashes = <<>>
  /\ hashes = <<>>
  /\ commit = None
  /\ branch = None
  /\ err = "none"
  /\ stderr = None
  /\ exit_status = None

\* a page `site` whose parse tree holds a category construct
NameExtract ==
  /\ pc = "extract"
  /\ SumOutgoing(graph.node_data) < MaxConstructs
  /\ \E site \in NameSites, target \in NameTargets, text \in NameTexts :
       graph' = add(graph, target, ExtractLabel(text, site[1]), site)
  /\ UNCHANGED <<pc, argVars, logVars, walkVars, catVars, storeVars, outVars>>

NameNext ==
  \/ NameExtract
  \/ ExtractDone
  \/ WalkInspect
  \/ Walk1Visit
  \/ Walk1Done
  \/ CitePage
  \/ CiteDone
  \/ CompileNode
  \/ StoreCommit
  \/ StoreBranch
  \/ MainExit

NameSpec == NameInit /\ [][NameNext]_vars

(***************************************************************************)
(* Properties.                                                             *)
(***************************************************************************)
InWalk == pc \in {"walk1", "walk2"}

Nodes == 0 .. GraphLen(graph) - 1
Outgoing(n) == NodeAt(graph, n).outgoing
Children(n) == {Outgoing(n)[k] : k \in DOMAIN Outgoing(n)}

\* the nodes reachable from the nodes of S along outgoing edges
RECURSIVE ReachFrom(_)
ReachFrom(S) ==
  LET T == S \cup UNION {Children(n) : n \in S}
  IN IF T = S THEN S ELSE ReachFrom(T)

\* the start node of both walks of a run
Root == found_root[1]
Reachable == ReachFrom({Root})

\* the nodes the visitor has been invoked for
Called == {calls[i].node : i \in DOMAIN calls}
\* a walk has run to the end of its loop
WalkOver == stack = <<>> /\ calls # <<>>

\* C1: in the sequence of visitor invocations, every child of a node that is
\* not in the forbidden list passed for that node was visited strictly
\* before the node
C1_PostOrder ==
  \A i \in DOMAIN calls :
    \A c \in Children(calls[i].node) :
      ~Contains(calls[i].forbidden, c)
        => \E j \in 1 .. i - 1 : calls[j].node = c

\* a finished walk of a graph with a cycle in which some node has both a
\* forbidden child and a child that is not forbidden
C1_Witness ==
  /\ WalkOver
  /\ \E i \in DOMAIN calls :
       /\ calls[i].forbidden # <<>>
       /\ \E c \in Children(calls[i].node) : ~Contains(calls[i].forbidden, c)

\* C2: the visitor is invoked at most once per node and only for nodes
\* reachable from the start node, and when a walk has run to its end it has
\* been invoked for every reachable node
C2_EachReachableOnce ==
  /\ \A i, j \in DOMAIN calls : calls[i].node = calls[j].node => i = j
  /\ Called \subseteq (IF found_root = None THEN {} ELSE Reachable)
  /\ WalkOver => Called = Reachable

\* a finished walk over two parallel edges to one child, in a graph with a
\* node that is not reachable from the start node
C2_Witness ==
  /\ WalkOver
  /\ \E n \in Reachable :
       \E k1, k2 \in DOMAIN Outgoing(n) :
         k1 # k2 /\ Outgoing(n)[k1] = Outgoing(n)[k2] /\ Outgoing(n)[k1] # n
  /\ Nodes \ Reachable # {}

\* C3: every walk terminates: the diagnostic walk returns with its frame
\* stack empty, and the compile walk returns either with its frame stack
\* empty or with the error of its visitor
C3_WalkTerminates ==
  /\ (pc = "walk1") ~> (pc = "cites" /\ stack = <<>>)
  /\ (pc = "walk2") ~> (~InWalk /\ (stack = <<>> \/ err \in VisitorErrs))

\* the diagnostic walk has returned from a graph holding a self-loop and a
\* cycle through two nodes
C3_Witness ==
  /\ pc = "cites"
  /\ stack = <<>>
  /\ \E i \in DOMAIN calls : Contains(calls[i].forbidden, calls[i].node)
  /\ \E i \in DOMAIN calls :
       \E c \in Children(calls[i].node) :
         c # calls[i].node /\ Contains(calls[i].forbidden, c)

\* the nodes whose frame is open on the stack
OpenNodes == {stack[i][1] : i \in DOMAIN stack}
CutsIn(ec, n) == IF n \in DOMAIN ec THEN ec[n] ELSE <<>>

\* one iteration of the walk's loop, as C4 has it: inspecting the edge to
\* child c of the top frame's node appends c to the node's forbidden list
\* exactly when c has an open frame (c is the node itself or an ancestor),
\* leaves every other list alone and does not end the walk; the visitor is
\* handed the node's list as it then stands
C4_Step ==
  Walking =>
    LET node == Top[1]
        children_visited == Top[2]
    IN IF children_visited < Len(Outgoing(node))
       THEN LET c == Outgoing(node)[children_visited + 1]
            IN /\ pc' = pc
               /\ stack' # <<>>
               /\ calls' = calls
               /\ \A m \in Nodes :
                    CutsIn(edge_cuts', m) =
                      IF m = node /\ c \in OpenNodes
                      THEN Append(Cuts(m), c)
                      ELSE Cuts(m)
       ELSE /\ edge_cuts' = edge_cuts
            /\ Len(calls') = Len(calls) + 1
            /\ calls'[Len(calls')].node = node
            /\ calls'[Len(calls')].forbidden = Cuts(node)

\* the graph {A->B, B->A}: A is node 0, B is node 1
GraphAB ==
  /\ graph.node_data = <<[outgoing |-> <<1>>, incoming |-> <<1>>],
                         [outgoing |-> <<0>>, incoming |-> <<0>>]>>
  /\ graph.node_labels = {<<0, CatA>>, <<1, CatB>>}

\* C4: a node's forbidden list holds a child exactly when the edge to it,
\* when inspected, led to the node itself or to an ancestor with an open
\* frame; finding such an edge does not end the walk; every walk starts with
\* no forbidden edge; and for {A->B, B->A} walked from A the visitor gets
\* B with [A], then A with []
C4_ForbiddenIsOpenAncestor ==
  /\ [][C4_Step]_vars
  /\ [][(~InWalk /\ InWalk') \/ (pc # pc' /\ InWalk')
          => edge_cuts' = <<>>]_vars
  /\ []((GraphAB /\ found_root = Some(0) /\ WalkOver)
          => [i \in DOMAIN calls |-> <<calls[i].node, calls[i].forbidden>>]
               = <<<<1, <<0>>>>, <<0, <<>>>>>>)

\* {A->B, B->A} has been walked from A to the end
C4_Witness == GraphAB /\ found_root = Some(0) /\ WalkOver /\ pc = "cites"

\* the top frame's node is about to be handed to the compile visitor
AtCompile ==
  pc = "walk2" /\ stack # <<>> /\ Top[2] >= Len(Outgoing(Top[1]))

\* C5: when a node is compiled, and ever after, the index->hash map holds
\* a hash for each of its children that is not forbidden for it, and the
\* visitor's lookup never panics
C5_ChildrenAlreadyAdded ==
  /\ stderr # Some(<<"panic", "Children should be already added">>)
  /\ AtCompile =>
       \A c \in Children(Top[1]) :
         ~Contains(Cuts(Top[1]), c) => c \in DOMAIN hashes
  /\ \A n \in DOMAIN hashes :
       \A c \in Children(n) : ~Contains(Cuts(n), c) => c \in DOMAIN hashes

\* a node with a forbidden child and a child that is not forbidden is about
\* to be compiled
C5_Witness ==
  /\ AtCompile
  /\ Cuts(Top[1]) # <<>>
  /\ \E c \in Children(Top[1]) : ~Contains(Cuts(Top[1]), c)

\* the indices whose bit is set
Ones(v) == {i \in DOMAIN v : v[i]}

\* C6: the bit set a walk returns has exactly the bits of the nodes
\* reachable from the start node; the 'Visited X out of N' line counts
\* them; and only reachable nodes ever get an entry of the index->hash map,
\* all of them once the commit exists
C6_VisitedIsReachable ==
  /\ (InWalk /\ stack = <<>>) => Ones(visited) = Reachable
  /\ cat_data # None =>
       /\ DOMAIN cat_data[1].visited = Nodes
       /\ Ones(cat_data[1].visited) = Reachable
       /\ visited_msg = Some(<<Cardinality(Reachable), GraphLen(graph)>>)
  /\ DOMAIN hashes \subseteq (IF found_root = None THEN {} ELSE Reachable)
  /\ commit # None => DOMAIN hashes = Reachable

\* a tree of two or more nodes has been committed from a graph with a node
\* that is not reachable from the root
C6_Witness ==
  /\ commit # None
  /\ Nodes \ Reachable # {}
  /\ Cardinality(Reachable) >= 2

\* C7: an invocation of the visitor that returns an error is the last one;
\* the walk and the run return that very error, the failing node gets no
\* hash and the walk's caller goes no further (no commit)
C7_VisitorErrorAborts ==
  \A i \in DOMAIN calls :
    calls[i].result # "Ok" =>
      /\ i = Len(calls)
      /\ pc = "exit"
      /\ err = calls[i].result
      /\ calls[i].node \notin DOMAIN hashes
      /\ commit = None

\* the visitor failed after an earlier node was compiled, with frames still
\* open on the stack
C7_Witness ==
  /\ Len(calls) >= 2
  /\ calls[Len(calls)].result # "Ok"
  /\ stack # <<>>

\* C8: the branch ref is set only once the compile walk has run to its end
\* over every node reachable from the root and the commit of the root's
\* tree exists; a run that returns an error has set no ref
C8_RefAfterCompile ==
  /\ commit # None =>
       /\ stack = <<>>
       /\ DOMAIN hashes = Reachable
       /\ commit = Some(hashes[Root])
       /\ \A i \in DOMAIN calls : calls[i].result = "Ok"
  /\ branch # None =>
       /\ commit # None
       /\ branch = commit
       /\ pc \in {"returned", "exit"}
       /\ err = "none"
  /\ err # "none" => branch = None

\* the ref is set on the commit of a tree with a child tree and a citation
C8_Witness ==
  /\ branch # None
  /\ Cardinality(DOMAIN hashes) >= 2
  /\ cite_hashes # <<>>

\* NoRootFound, a dump-reader failure during category extraction, and the
\* failures of the object store
FatalErrs == {"NoRootCategory", "MediawikiParse",
              "GitInit", "GitBlob", "GitTree", "GitCommit", "GitRef"}

\* C9: a run that ends in a fatal condition has printed a diagnostic and
\* exits with a status other than 0
C9_FatalExitsNonZero ==
  (pc = "exit" /\ err \in FatalErrs) =>
    (stderr # None /\ exit_status # Some(0))

\* the nodes with no incoming edge
NoIncoming == {i \in Nodes : NodeAt(graph, i).incoming = <<>>}
\* a node of the graph has the identity (search, category)
SearchFound ==
  search # <<>> /\ \E p \in graph.node_labels : p[2] = <<search, TRUE>>

\* C10: the root is the node with the searched identity when a search name
\* is given and such a node exists, else the lowest-index node with no
\* incoming edge; with no such node either the run fails with NoRootFound
\* and walks nothing
C10_RootSelection ==
  /\ pc \in {"walk1", "cites", "walk2", "branch"} => found_root # None
  /\ found_root # None =>
       IF SearchFound
       THEN <<Root, <<search, TRUE>>>> \in graph.node_labels
       ELSE Root \in NoIncoming /\ \A j \in NoIncoming : Root <= j
  /\ err = "NoRootCategory" =>
       /\ ~SearchFound
       /\ NoIncoming = {}
       /\ found_root = None
       /\ calls = <<>> /\ stack = <<>> /\ visited = <<>>
       /\ cat_data = None
  /\ (pc = "exit" /\ command = "cats" /\ found_root = None
        /\ err \notin {"GitInit", "Io", "MediawikiParse"})
       => err = "NoRootCategory"

\* a search name is given that only an article of the graph bears, and the
\* walk has started from the first root, which is not node 0
C10_Witness ==
  /\ search # <<>>
  /\ <<search, FALSE>> \in {p[2] : p \in graph.node_labels}
  /\ ~SearchFound
  /\ found_root # None
  /\ Root # 0
  /\ pc = "walk1"

\* the category pass has read the whole dump and chosen, or failed to choose,
\* a root
ExtractionOver ==
  /\ command = "cats"
  /\ pc \notin {"init", "extract"}
  /\ err \notin {"GitInit", "Io", "MediawikiParse"}

\* the run has failed with NoRootFound, printed by main, before any walk,
\* citation blob, tree, commit or ref
FailedNoRoot ==
  /\ pc = "exit"
  /\ err = "NoRootCategory"
  /\ stderr = Some(<<"ERROR", "NoRootCategory">>)
  /\ found_root = None /\ cat_data = None /\ visited_msg = None
  /\ calls = <<>> /\ stack = <<>>
  /\ cite_hashes = <<>> /\ hashes = <<>>
  /\ commit = None /\ branch = None

\* C11: a run over a graph in which no node has zero incoming edges fails
\* with NoRootFound, surfaced to the caller, with nothing compiled or
\* published, unless a search name is given that a category of the graph
\* bears: then that category is the root and the run goes on
C11_NoRootFound ==
  ExtractionOver /\ NoIncoming = {} =>
    IF SearchFound
    THEN /\ err # "NoRootCategory"
         /\ <<Root, <<search, TRUE>>>> \in graph.node_labels
    ELSE FailedNoRoot

\* the run has failed with NoRootFound on a graph whose nodes all lie on a
\* cycle, with a search name that no category of the graph bears
C11_Witness ==
  /\ FailedNoRoot
  /\ GraphLen(graph) >= 2
  /\ search # <<>>

\* C11 as stated: every run over a graph in which no node has zero incoming
\* edges fails with NoRootFound and compiles and publishes nothing
C11_AsStated ==
  ExtractionOver /\ NoIncoming = {} => FailedNoRoot

(***************************************************************************)
(* The compilation as a function of its inputs: a depth-first descent by   *)
(* recursion from the root, which cuts every edge to the node itself or to *)
(* an ancestor, skips nodes compiled before, and compiles a node after its *)
(* children.  st is [visited, hashes, order]: the nodes entered, the hash  *)
(* of each node compiled, and the nodes with their cut children in the     *)
(* order compiled.                                                         *)
(***************************************************************************)
RECURSIVE RecVisit(_, _, _, _, _)
RECURSIVE RecChildren(_, _, _, _, _, _, _)
RecChildren(g, cites, n, anc, k, cuts, st) ==
  LET outgoing == NodeAt(g, n).outgoing
  IN IF k > Len(outgoing) THEN [st |-> st, cuts |-> cuts]
     ELSE LET c == outgoing[k]
          IN IF c \in anc \cup {n}
             THEN RecChildren(g, cites, n, anc, k + 1, Append(cuts, c), st)
             ELSE IF c \in st.visited
             THEN RecChildren(g, cites, n, anc, k + 1, cuts, st)
             ELSE RecChildren(g, cites, n, anc, k + 1, cuts,
                              RecVisit(g, cites, c, anc \cup {n}, st))

RecVisit(g, cites, n, anc, st) ==
  LET r == RecChildren(g, cites, n, anc, 1, <<>>,
                       [st EXCEPT !.visited = @ \cup {n}])
  IN [visited |-> r.st.visited,
      hashes |-> MapInsert(r.st.hashes, n,
                           TreeOf(g, cites, r.st.hashes, n, r.cuts)),
      order |-> Append(r.st.order, <<n, r.cuts>>)]

\* the hash of every node that compiling graph g from `root` with the
\* citations `cites` gives
Compiled(g, root, cites) ==
  RecVisit(g, cites, root, {},
           [visited |-> {}, hashes |-> <<>>, order |-> <<>>]).hashes

\* the entries of two trees of one node that bear the same name
Collide(n) ==
  \E k1, k2 \in DOMAIN Outgoing(n) :
    /\ Outgoing(n)[k1] # Outgoing(n)[k2]
    /\ ~Contains(Cuts(n), Outgoing(n)[k1])
    /\ ~Contains(Cuts(n), Outgoing(n)[k2])
    /\ get_git_file_name(graph, n, Outgoing(n)[k1])
         = get_git_file_name(graph, n, Outgoing(n)[k2])

\* C12: the hash a compile run gives a node is a function of the graph, the
\* root and the citation sequences alone: whatever the run, each hash it has
\* stored is the one that function gives, and a run that commits has stored
\* all of them and commits the root's; so no two runs on the same inputs
\* differ in the tree of any node
C12_CompileDeterministic ==
  hashes # <<>> =>
    LET F == Compiled(graph, Root, cite_hashes)
    IN /\ \A n \in DOMAIN hashes : n \in DOMAIN F /\ hashes[n] = F[n]
       /\ commit # None => hashes = F /\ commit = Some(F[Root])

\* a tree is committed in which a citation is stored and two children of one
\* node were inserted under the same entry name
C12_Witness ==
  /\ commit # None
  /\ cite_hashes # <<>>
  /\ \E n \in DOMAIN hashes : Collide(n)

(***************************************************************************)
(* Properties of the public functions of Graph.                            *)
(***************************************************************************)
FoaCalls == {i \in DOMAIN history : history[i].op = "find_or_add_vertex"}
AddCalls == {i \in DOMAIN history : history[i].op = "add"}

\* call i of the history names identity id
Uses(i, id) ==
  IF history[i].op = "add"
  THEN history[i].args[1] = id \/ history[i].args[3] = id
  ELSE history[i].op = "find_or_add_vertex" /\ history[i].args[1] = id

\* C13: every call of find_or_add_vertex with one identity returns the same
\* index, which stays the identity's index; the call adds one node when no
\* earlier call named the identity and none when one did, so that the node
\* count grows by 1 in total over any number of calls if the identity was
\* absent and by 0 if it was present
C13_FindOrAddIdempotent ==
  \A i \in FoaCalls :
    LET id == history[i].args[1]
        present == \E j \in 1 .. i - 1 : Uses(j, id)
    IN /\ find_vertex(graph, id) = history[i].ret
       /\ \A j \in FoaCalls : history[j].args[1] = id
            => history[j].ret = history[i].ret
       /\ history[i].after = history[i].before + (IF present THEN 0 ELSE 1)

\* find_or_add_vertex was called for an absent identity, then add was
\* called, then find_or_add_vertex for the same identity again
C13_Witness ==
  \E i, j \in FoaCalls :
    /\ i + 1 < j
    /\ history[i].args = history[j].args
    /\ history[i].after = history[i].before + 1
    /\ i + 1 \in AddCalls

\* the identities of the edge that call i of add names, and its index pair
PairOf(i) == <<history[i].args[1], history[i].args[3]>>
EdgeOf(i) ==
  <<find_vertex(graph, history[i].args[1])[1],
    find_vertex(graph, history[i].args[3])[1]>>
\* the most recent call of add for the pair of call i
LastAdd(i) ==
  CHOOSE j \in AddCalls :
    /\ PairOf(j) = PairOf(i)
    /\ \A k \in AddCalls : PairOf(k) = PairOf(i) => k <= j

\* C14: the label get_edge_label gives for a pair that was added is the one
\* of the most recent add for that pair, only added pairs have a label, and
\* a call changes the label of no pair but the one it adds
C14_LastLabelWins ==
  /\ [](/\ \A i \in AddCalls :
            /\ EdgeOf(i) \in DOMAIN graph.edge_labels
            /\ get_edge_label(graph, EdgeOf(i)) = history[LastAdd(i)].args[2]
        /\ DOMAIN graph.edge_labels = {EdgeOf(i) : i \in AddCalls})
  /\ [][\A e \in DOMAIN graph.edge_labels :
          /\ e \in DOMAIN graph'.edge_labels
          /\ graph'.edge_labels[e] # graph.edge_labels[e]
               => /\ history'[Len(history')].op = "add"
                  /\ graph' = add(graph, get_vertex_label(graph, e[1]),
                                  history'[Len(history')].args[2],
                                  get_vertex_label(graph, e[2]))]_vars

\* a pair was added, then another pair, then the first again with another
\* label
C14_Witness ==
  /\ Len(history) = 3
  /\ AddCalls = {1, 2, 3}
  /\ PairOf(1) = PairOf(3)
  /\ PairOf(1) # PairOf(2)
  /\ history[1].args[2] # history[3].args[2]

\* the number of times x occurs in sequence s
Occ(s, x) == Cardinality({k \in DOMAIN s : s[k] = x})
\* the calls of add for the edge from identity a to identity b
AddsOf(a, b) == {i \in AddCalls : PairOf(i) = <<a, b>>}
\* the last two calls were add(a, "x", b) and then add(a, "y", b)
TwiceAdded(a, b) ==
  /\ Len(history) >= 2
  /\ history[Len(history) - 1].op = "add"
  /\ history[Len(history) - 1].args = <<a, <<"x">>, b>>
  /\ history[Len(history)].op = "add"
  /\ history[Len(history)].args = <<a, <<"y">>, b>>

\* C15: add(A, "x", B) and then add(A, "y", B) leave one label entry for
\* (A, B), carrying "y", while each call appends to the adjacency lists: B
\* occurs in A's outgoing sequence, and A in B's incoming sequence, once per
\* call of add for the pair, so at least twice
C15_OverwriteKeepsParallelEdges ==
  \A a, b \in ApiIdents :
    TwiceAdded(a, b) =>
      LET l == find_vertex(graph, a)[1]
          r == find_vertex(graph, b)[1]
      IN /\ get_edge_label(graph, <<l, r>>) = <<"y">>
         /\ Occ(NodeAt(graph, l).outgoing, r) = Cardinality(AddsOf(a, b))
         /\ Occ(NodeAt(graph, r).incoming, l) = Cardinality(AddsOf(a, b))
         /\ Cardinality(AddsOf(a, b)) >= 2

\* add(A, "x", B) and then add(A, "y", B) were called on the empty graph,
\* for two identities A and B
C15_Witness ==
  /\ Len(history) = 2
  /\ \E a, b \in ApiIdents : a # b /\ TwiceAdded(a, b)

\* C15 as stated: after the two calls B occurs exactly once in A's outgoing
\* sequence and A exactly once in B's incoming sequence
C15_AsStated ==
  \A a, b \in ApiIdents :
    TwiceAdded(a, b) =>
      LET l == find_vertex(graph, a)[1]
          r == find_vertex(graph, b)[1]
      IN /\ get_edge_label(graph, <<l, r>>) = <<"y">>
         /\ Occ(NodeAt(graph, l).outgoing, r) = 1
         /\ Occ(NodeAt(graph, r).incoming, l) = 1

\* the graph {A->B, B->C}: A, B, C are nodes 0, 1, 2
GraphChain ==
  graph.node_data = <<[outgoing |-> <<1>>, incoming |-> <<>>],
                      [outgoing |-> <<2>>, incoming |-> <<0>>],
                      [outgoing |-> <<>>, incoming |-> <<1>>]>>

\* C16: what roots() returns is strictly increasing and holds exactly the
\* nodes whose incoming sequence is empty, so no node that is the target of
\* an edge, a self-loop included; for {A->B, B->C} it is [A]
C16_Roots ==
  (history # <<>> /\ history[Len(history)].op = "roots") =>
    LET rs == history[Len(history)].ret[1]
    IN /\ \A k \in 1 .. Len(rs) - 1 : rs[k] < rs[k + 1]
       /\ {rs[k] : k \in DOMAIN rs} = NoIncoming
       /\ \A n \in Nodes : \A c \in Children(n) : ~Contains(rs, c)
       /\ GraphChain => rs = <<0>>

\* roots() was called on {A->B, B->C}
C16_Witness ==
  /\ GraphChain
  /\ history[Len(history)].op = "roots"

\* the number of entries of the incoming sequences
RECURSIVE SumIncoming(_)
SumIncoming(nd) ==
  IF nd = <<>> THEN 0 ELSE Len(Head(nd).incoming) + SumIncoming(Tail(nd))

\* C20: every index in an outgoing or incoming sequence and both indices of
\* every key of the edge labels are below the node count; every node has an
\* identity, so that the bounds test of add_edge passes; and each call of
\* add has appended one outgoing and one incoming entry
C20_EndpointsInBounds ==
  /\ \A n \in Nodes :
       /\ \A k \in DOMAIN NodeAt(graph, n).outgoing :
            NodeAt(graph, n).outgoing[k] \in Nodes
       /\ \A k \in DOMAIN NodeAt(graph, n).incoming :
            NodeAt(graph, n).incoming[k] \in Nodes
  /\ \A e \in DOMAIN graph.edge_labels : e[1] \in Nodes /\ e[2] \in Nodes
  /\ Cardinality(graph.node_labels) = GraphLen(graph)
  /\ SumOutgoing(graph.node_data) = Cardinality(AddCalls)
  /\ SumIncoming(graph.node_data) = Cardinality(AddCalls)

\* add was called with two new identities, with one, and with none
C20_Witness ==
  /\ AddCalls = {1, 2, 3}
  /\ history[1].after = history[1].before + 2
  /\ history[2].after = history[2].before + 1
  /\ history[3].after = history[3].before

(***************************************************************************)
(* Properties of the citation entries of a compiled node.                  *)
(***************************************************************************)
\* the ordinal key of j in base 36, for j below 36 * 36: "1", ..., "9",
\* "a", ..., "z", "10", "11", ...
OrdinalKey(j) ==
  LET digit(d) == IF d < 10 THEN <<ToString(d)>> ELSE <<Digits36[d + 1]>>
  IN IF j < 36 THEN digit(j) ELSE digit(j \div 36) \o digit(j % 36)

\* the entries of the tree of node n other than its name marker and its
\* children
CiteEntries(n) ==
  {e \in hashes[n].entries : e.mode = ModeBlob /\ e.name \notin {CatTxt, ArtTxt}}

\* C17: the tree of a compiled node with k citations holds k citation
\* entries; the j-th citation, in the order of the sequence, is stored with
\* its own blob under the base-36 ordinal key of j followed by ".txt":
\* "1.txt", "2.txt", ..., "9.txt", "a.txt", ..., "z.txt", "10.txt", ...
C17_CiteNames ==
  \A n \in DOMAIN hashes :
    /\ Cardinality(CiteEntries(n)) = Len(CitesOf(n))
    /\ CiteEntries(n) =
         {[name |-> OrdinalKey(j) \o DotTxt, oid |-> CitesOf(n)[j],
           mode |-> ModeBlob] : j \in DOMAIN CitesOf(n)}

\* the tree of an article with more than 36 citations that are not all
\* alike is committed
C17_Witness ==
  /\ commit # None
  /\ Len(CitesOf(1)) > 36
  /\ CitesOf(1)[1] # CitesOf(1)[2]

\* C17 as stated: the j-th citation is stored under the name that is the
\* ordinal key of j itself: "1", "2", ...
C17_AsStated ==
  \A n \in DOMAIN hashes :
    /\ Cardinality(CiteEntries(n)) = Len(CitesOf(n))
    /\ CiteEntries(n) =
         {[name |-> OrdinalKey(j), oid |-> CitesOf(n)[j],
           mode |-> ModeBlob] : j \in DOMAIN CitesOf(n)}

(***************************************************************************)
(* Properties of the edge label the extractor passes to Graph::add.        *)
(***************************************************************************)
\* the construct handed to the latest call of extract_node, and the label
\* stored for its edge
LastTarget == history[Len(history)].args[1]
LastText == history[Len(history)].args[2]
LastSite == history[Len(history)].args[3]
LastLabel ==
  get_edge_label(graph, <<find_vertex(graph, LastTarget)[1],
                          find_vertex(graph, LastSite)[1]>>)

\* a string of one character that is not alphanumeric, whatever its width
LonePunctuation(s) == Len(s) = 1 /\ ~IsAlphanumeric(s[1])

\* C18: the edge label of a category construct is its trimmed anchor text,
\* except that a text that is empty or one non-alphanumeric character, of
\* any byte width, gives the document's name; so the stored label is empty
\* or a lone punctuation character only if the document's name is
C18_LabelFallback ==
  history # <<>> =>
    /\ LastLabel =
         IF Trim(LastText) = <<>> \/ LonePunctuation(Trim(LastText))
         THEN LastSite[1]
         ELSE Trim(LastText)
    /\ (LastLabel = <<>> \/ LonePunctuation(LastLabel))
         => LastLabel = LastSite[1]

\* what the source does: the fallback is taken for the empty text and for
\* one non-alphanumeric character of one byte, and for no other text
LabelFallsBackOnOneByte ==
  history # <<>> =>
    /\ LastLabel =
         IF Trim(LastText) = <<>>
            \/ (LonePunctuation(Trim(LastText)) /\ ByteLen(Trim(LastText)[1]) = 1)
         THEN LastSite[1]
         ELSE Trim(LastText)
    /\ LastLabel # <<>>

\* a construct whose anchor text is an en dash after blanks, on a document
\* of alphanumeric name
EnDashLabel ==
  /\ history # <<>>
  /\ LastText = <<" ", "EN">>
  /\ LastSite = ArtA

(***************************************************************************)
(* Properties of the handling of a failure of the dump reader.             *)
(***************************************************************************)
\* the diagnostic of add_articles and add_articles_to_git
ReaderDiagnostic == Some(<<"Error", "MediawikiParse">>)
\* nothing has been compiled or published
NothingCompiled == hashes = <<>> /\ commit = None /\ branch = None

\* C19: a failure of the dump reader in the article pass of list, parse,
\* json and debug, or in the citation pass, is reported and ends the process
\* there with status 1: no later page is read and nothing is compiled; the
\* same failure during category extraction is returned as an error, which
\* ends the run before any traversal or compilation
C19_ReaderFailure ==
  /\ [](stderr = ReaderDiagnostic =>
          /\ pc = "exit"
          /\ exit_status = Some(1)
          /\ err = "none"
          /\ NothingCompiled)
  /\ [](err = "MediawikiParse" =>
          /\ pc = "exit"
          /\ command = "cats"
          /\ stderr = Some(<<"ERROR", "MediawikiParse">>)
          /\ found_root = None /\ cat_data = None
          /\ calls = <<>> /\ visited = <<>> /\ cite_hashes = <<>>
          /\ NothingCompiled)
  /\ [][stderr' = ReaderDiagnostic
          => pc \in {"articles", "cites"} /\ pc' = "exit"]_vars
  /\ [][err' = "MediawikiParse" => pc = "extract" /\ pc' = "exit"]_vars

\* the reader has failed in the citation pass after the citation of an
\* earlier page was stored
C19_Witness ==
  /\ stderr = ReaderDiagnostic
  /\ cite_hashes # <<>>

\* C19 as stated: after a failure of the dump reader in a pass other than
\* the category extraction the pass goes on with the next page, while a
\* failure during category extraction ends the run
C19_AsStated ==
  /\ [][(pc \in {"articles", "cites"} /\ stderr' = ReaderDiagnostic)
          => pc' = pc]_vars
  /\ [][err' = "MediawikiParse" => pc = "extract" /\ pc' = "exit"]_vars

(***************************************************************************)
(* Properties of the walk as a depth-first search.                         *)
(***************************************************************************)
\* the post-order of the recursive depth-first descent from the root: each
\* node with the children cut for it
RefOrder ==
  RecVisit(graph, cite_hashes, Root, {},
           [visited |-> {}, hashes |-> <<>>, order |-> <<>>]).order

\* C21: the sequence of visitor invocations of a walk, each with its
\* forbidden list, is at every moment a prefix of the post-order of the
\* recursive depth-first descent that takes the children of a node in the
\* order of its outgoing sequence and skips those already discovered, and
\* is the whole of it when the walk has run to its end; the diagnostic walk
\* and the compile walk of a run therefore make the same sequence
C21_IterativeIsRecursive ==
  calls # <<>> =>
    LET ref == RefOrder
    IN /\ Len(calls) <= Len(ref)
       /\ \A i \in DOMAIN calls :
            <<calls[i].node, calls[i].forbidden>> = ref[i]
       /\ WalkOver => Len(calls) = Len(ref)

\* the compile walk has run to its end over three nodes or more, one of
\* them with a forbidden child, one of them reached by two edges
C21_Witness ==
  /\ pc = "walk2"
  /\ WalkOver
  /\ Len(calls) >= 3
  /\ \E i \in DOMAIN calls : calls[i].forbidden # <<>>
  /\ \E n \in Nodes : Len(NodeAt(graph, n).incoming) >= 2

\* the forbidden list the visitor was handed for node n
ForbiddenOf(n) ==
  IF \E i \in DOMAIN calls : calls[i].node = n
  THEN calls[CHOOSE i \in DOMAIN calls : calls[i].node = n].forbidden
  ELSE <<>>
\* the children of n whose edge is kept: those not forbidden for n
KeptChildren(n) == {c \in Children(n) : ~Contains(ForbiddenOf(n), c)}
\* the nodes reached from the nodes of S by one kept edge or more
RECURSIVE KeptReach(_)
KeptReach(S) ==
  LET T == S \cup UNION {KeptChildren(n) : n \in S}
  IN IF T = S THEN S ELSE KeptReach(T)
Descendants(n) == KeptReach(KeptChildren(n))

\* C22: once a walk has run to its end, the nodes reachable from the start
\* with the edges to forbidden children removed have no directed cycle and
\* no self-loop: no node is its own descendant, and each node reachable
\* from the start is still a descendant of the start or the start itself
C22_ForbiddenRemovalGivesDag ==
  WalkOver =>
    /\ \A n \in Reachable : n \notin Descendants(n)
    /\ Reachable = {Root} \cup Descendants(Root)

\* a walk has run to its end over a graph with a self-loop and a cycle
\* through two nodes
C22_Witness ==
  /\ pc = "walk2"
  /\ WalkOver
  /\ \E n \in Reachable : n \in Children(n)
  /\ \E n, m \in Reachable : n # m /\ m \in Children(n) /\ n \in Children(m)

(***************************************************************************)
(* Properties of the entry names of a compiled tree.                       *)
(***************************************************************************)
\* the name of the marker of node n, and the names its citations get
MarkerName(n) == IF get_vertex_label(graph, n)[2] THEN CatTxt ELSE ArtTxt
CiteNames(n) == {Radix36(j) \o DotTxt : j \in DOMAIN CitesOf(n)}
\* the names the visitor inserts into the tree of node n
InsertedNames(n) ==
  {MarkerName(n)}
    \cup {get_git_file_name(graph, n, c) : c \in KeptChildren(n)}
    \cup CiteNames(n)

\* the tree of n holds the tree of its child c under the child's entry name
Referenced(n, c) ==
  [name |-> get_git_file_name(graph, n, c), oid |-> hashes[c],
   mode |-> ModeTree] \in hashes[n].entries

\* a later insertion into the tree of n takes the entry name of child c: a
\* kept child other than c that stands after the last edge to c in the
\* outgoing sequence, or a citation
Overwritten(n, c) ==
  LET last == CHOOSE k \in DOMAIN Outgoing(n) :
                /\ Outgoing(n)[k] = c
                /\ \A m \in DOMAIN Outgoing(n) : Outgoing(n)[m] = c => m <= k
  IN \/ \E k \in DOMAIN Outgoing(n) :
          /\ k > last
          /\ Outgoing(n)[k] # c
          /\ Outgoing(n)[k] \in KeptChildren(n)
          /\ get_git_file_name(graph, n, Outgoing(n)[k])
               = get_git_file_name(graph, n, c)
     \/ get_git_file_name(graph, n, c) \in CiteNames(n)

\* the marker of n is in its tree
MarkerKept(n) ==
  [name |-> MarkerName(n), oid |-> Blob(get_vertex_label(graph, n)[1]),
   mode |-> ModeBlob] \in hashes[n].entries

IdentsOfCall(k) ==
  IF history[k].op = "add" THEN {history[k].args[1], history[k].args[3]}
  ELSE {history[k].args[1]}
IdentsBefore(k) == UNION {IdentsOfCall(j) : j \in 1 .. (k - 1)}
\* call k is add_vertex with an identity that is already present
DuplicateAddVertex(k) ==
  /\ history[k].op = "add_vertex"
  /\ history[k].args[1] \in IdentsBefore(k)

\* exactly one identity for every index, and as many pairs as nodes
MapInStep ==
  /\ \A i \in 0 .. (GraphLen(graph) - 1) :
       Cardinality({p \in graph.node_labels : p[1] = i}) = 1
  /\ Cardinality(graph.node_labels) = GraphLen(graph)

\* C24: after any sequence of add_vertex, find_or_add_vertex and add the
\* map pairs indices of nodes with identities one to one and has one pair
\* for each identity passed so far, the newest node always among them; it
\* is in step with the node list (one identity for every index, as many
\* pairs as nodes) exactly when no add_vertex call passed an identity that
\* was already present: such a call takes the identity from the earlier
\* index, which is left without one
C24_MapFollowsIdentities ==
  LET m == graph.node_labels
  IN /\ \A p, q \in m : (p[1] = q[1]) <=> (p[2] = q[2])
     /\ \A p \in m : p[1] \in 0 .. (GraphLen(graph) - 1)
     /\ {p[2] : p \in m} = IdentsBefore(Len(history) + 1)
     /\ GraphLen(graph) > 0 => HasVertexLabel(graph, GraphLen(graph) - 1)
     /\ MapInStep <=> ~\E k \in DOMAIN history : DuplicateAddVertex(k)
     /\ \A k \in DOMAIN history :
          DuplicateAddVertex(k) =>
            \E i \in 0 .. (history[k].ret[1] - 1) : ~HasVertexLabel(graph, i)

\* add_vertex was called with an identity already present; an index is left
\* with no identity, and a later add of an edge between present identities
\* stored no edge, its endpoint being beyond the size of the map
C24_Witness ==
  /\ \E k \in DOMAIN history : DuplicateAddVertex(k)
  /\ \E i \in 0 .. (GraphLen(graph) - 1) : ~HasVertexLabel(graph, i)
  /\ history # <<>>
  /\ history[Len(history)].op = "add"
  /\ SumOutgoing(graph.node_data) = 0

\* C24 as stated: the map is in step with the node list after any sequence
\* of add_vertex, find_or_add_vertex and add
C24_AsStated == MapInStep

(***************************************************************************)
(* Properties of the adjacency lists under add and add_edge.               *)
(***************************************************************************)
\* the pairs (l, r) with r in the outgoing list of l
OutgoingPairs ==
  UNION {{<<l, NodeAt(graph, l).outgoing[k]>> :
            k \in DOMAIN NodeAt(graph, l).outgoing} :
         l \in 0 .. (GraphLen(graph) - 1)}
\* call k is add_edge with an index of no node
RejectedAddEdge(k) ==
  /\ history[k].op = "add_edge"
  /\ \/ history[k].args[1] >= history[k].before
     \/ history[k].args[2] >= history[k].before

\* C25: after any sequence of add and add_edge calls r occurs in the
\* outgoing list of l as often as l occurs in the incoming list of r, every
\* entry of a list is the index of a node, and the keys of the edge label
\* map are the pairs (l, r) with r in the outgoing list of l
C25_AdjacencySymmetric ==
  LET ns == 0 .. (GraphLen(graph) - 1)
  IN /\ \A l, r \in ns :
          Occ(NodeAt(graph, l).outgoing, r) = Occ(NodeAt(graph, r).incoming, l)
     /\ \A n \in ns :
          /\ \A k \in DOMAIN NodeAt(graph, n).outgoing :
               NodeAt(graph, n).outgoing[k] \in ns
          /\ \A k \in DOMAIN NodeAt(graph, n).incoming :
               NodeAt(graph, n).incoming[k] \in ns
     /\ DOMAIN graph.edge_labels = OutgoingPairs

\* add_edge was called with an index of no node, and an edge was added
\* twice, once to a node by itself
C25_Witness ==
  /\ \E k \in DOMAIN history : RejectedAddEdge(k)
  /\ \E l \in 0 .. (GraphLen(graph) - 1) :
       Occ(NodeAt(graph, l).outgoing, l) >= 2

=============================================================================
